---- MODULE Spec2Model ----
(***************************************************************************)
(* Background AI job tracking of the Stash web app.                        *)
(*                                                                         *)
(* The job store (web/services/ai-jobs.js over web/lib/state.js) and the   *)
(* three background processors of the application class that drive it     *)
(* (transcript cleanup, AI enrichment, Apple Podcasts import).             *)
(*                                                                         *)
(* Time is counted in whole hours.  A Date is the hour it denotes; its     *)
(* JSON form is the pair (date, time of day) of its ISO string.  Storage   *)
(* writes succeed (spec section 6: the key-value store is available).      *)
(***************************************************************************)
EXTENDS Integers, Sequences, FiniteSets, TLC

VARIABLES
    aiJobs,            \* appState.aiJobs: in-memory list, most recent first
    aiJobIdCounter,    \* appState.aiJobIdCounter
    stored,            \* localStorage['stash-ai-jobs']: Null or <<record>>
    now,               \* wall clock, in hours
    procs,             \* the background processors (async calls) in flight
    calls,             \* history: the store calls made by the last step
    createLog,         \* history: the ids handed out by createAIJob, in order
    badge,             \* the number shown by the #ai-jobs-count element
    modelsCache,       \* localStorage['stash-<provider>-models-cache']
    resolved,          \* history: the last call of resolveModelForTier
    refreshed,         \* history: the last refresh observed from its call
                       \* to its return (Refresh)
    apiKeys,           \* localStorage['stash-<provider>-api-key'] is set
    fetches,           \* the providers whose listing call is in flight
    resetDone          \* history: the provider's key was reset, and since
                       \* then none was validated and no page was loaded

jobVars ==
    <<aiJobs, aiJobIdCounter, stored, now, procs, calls, createLog, badge>>

keyVars == <<apiKeys, fetches, resetDone>>

modelVars == <<modelsCache, resolved, refreshed, keyVars>>

vars == <<jobVars, modelVars>>

----------------------------------------------------------------------------
(* Program constants *)

MAX_JOBS == 20
JOB_RETENTION_HOURS == 24

(* Bounds of the model *)

MaxNewJobs == 2      \* jobs created during one behaviour
MaxItems == 2        \* podcasts selected for one import
MaxTime == 30        \* the clock does not go beyond this hour
TickHours == 30      \* hours that pass in one step of the clock
NumProcs == 2        \* background processors that can be in flight at once
MaxCatalog == 3      \* identifiers in a cached list of models
MaxListing == 2      \* entries in the answer of a listing call

----------------------------------------------------------------------------
(* Values *)

Null == <<>>
Some(x) == <<x>>

Min(a, b) == IF a < b THEN a ELSE b

(* the page of the application has the #ai-jobs-list element *)
hasListContainer == TRUE

(* error.message of whatever a processor caught *)
ErrorMsg == "Error"

InterruptedMsg == "Interrupted by page refresh"

Terminal(status) == status \in {"completed", "failed"}

toISOString_dateOnly(t) == [date |-> t \div 24, time |-> 0]

(* JSON.stringify of a Date gives its ISO string; new Date(string) parses it *)
toISOString(t) == [date |-> t \div 24, time |-> t % 24]

parseDate(iso) == (iso.date * 24) + iso.time

(* JSON.stringify of one job of the list *)
stringifyJob(job) ==
    [job EXCEPT !.startedAt = toISOString(job.startedAt),
                !.completedAt = IF job.completedAt = Null THEN Null
                                ELSE Some(toISOString(job.completedAt[1]))]

(* JSON.parse of one job, then the first forEach of loadAIJobs *)
reviveJob(sj) ==
    [sj EXCEPT !.startedAt = parseDate(sj.startedAt),
               !.completedAt = IF sj.completedAt = Null THEN Null
                               ELSE Some(parseDate(sj.completedAt[1]))]

markInterrupted_noError(job, t) ==
    IF job.status = "processing" \/ job.status = "pending"
    THEN [job EXCEPT !.status = "failed", !.completedAt = Some(t)]
    ELSE job

(* the second forEach of loadAIJobs *)
markInterrupted(job, t) ==
    IF job.status = "processing" \/ job.status = "pending"
    THEN [job EXCEPT !.status = "failed",
                     !.error = Some(InterruptedMsg),
                     !.completedAt = Some(t)]
    ELSE job

----------------------------------------------------------------------------
(* The store: a record [aiJobs, aiJobIdCounter, stored] *)

keepJob_active(job, t) ==
    \/ job.startedAt > t - JOB_RETENTION_HOURS
    \/ ~Terminal(job.status)

(* the filter of saveAIJobs: new Date(job.startedAt) > cutoff *)
keepJob(job, t) == job.startedAt > t - JOB_RETENTION_HOURS

saveAIJobs_noSlice(S, t) ==
    LET filteredJobs == SelectSeq(S.aiJobs, LAMBDA job : keepJob(job, t))
    IN  [S EXCEPT !.aiJobs = filteredJobs,
                  !.stored = Some([jobs |-> [k \in 1..Len(filteredJobs) |->
                                                stringifyJob(filteredJobs[k])],
                                   counter |-> S.aiJobIdCounter])]

saveAIJobs(S, t) ==
    LET filteredJobs == SelectSeq(S.aiJobs, LAMBDA job : keepJob(job, t))
        sliced == SubSeq(filteredJobs, 1, Min(MAX_JOBS, Len(filteredJobs)))
    IN  [S EXCEPT !.aiJobs = filteredJobs,
                  !.stored = Some([jobs |-> [k \in 1..Len(sliced) |->
                                                stringifyJob(sliced[k])],
                                   counter |-> S.aiJobIdCounter])]

loadAIJobs_noCounter(S, t) ==
    IF S.stored = Null THEN S
    ELSE LET data == S.stored[1]
             revived == [k \in 1..Len(data.jobs) |-> reviveJob(data.jobs[k])]
             jobs == [k \in 1..Len(revived) |-> markInterrupted(revived[k], t)]
         IN  saveAIJobs([S EXCEPT !.aiJobs = jobs], t)

(* An item of localStorage that saveAIJobs did not write carries a shape:  *)
(* text that is not JSON, the JSON text null, an object whose jobs field   *)
(* is a string, an object whose job list holds a null entry                *)
Unparsable == [shape |-> "unparsable"]
JsonNull == [shape |-> "null"]
JobsNotList(c) == [shape |-> "jobsNotList", counter |-> c]
NullEntry(c) == [shape |-> "nullEntry", counter |-> c]

WellFormed(data) == "shape" \notin DOMAIN data

(* loadAIJobs on such an item, up to the statement that raises; the catch  *)
(* block logs a warning and keeps what was assigned before                 *)
loadRaising(S, data) ==
    IF data.shape \in {"unparsable", "null"}
    THEN S                                     \* JSON.parse, data.jobs raise
    ELSE [S EXCEPT !.aiJobIdCounter = data.counter]   \* jobs.forEach raises

loadAIJobs(S, t) ==
    IF S.stored = Null THEN S
    ELSE LET data == S.stored[1]
             revived == [k \in 1..Len(data.jobs) |-> reviveJob(data.jobs[k])]
             jobs == [k \in 1..Len(revived) |-> markInterrupted(revived[k], t)]
         IN  IF ~WellFormed(data) THEN loadRaising(S, data)
             ELSE saveAIJobs([S EXCEPT !.aiJobIdCounter = data.counter,
                                      !.aiJobs = jobs], t)

newJob(id, title, totalItems, t) ==
    [id |-> id, title |-> title, status |-> "pending", progress |-> 0,
     totalItems |-> totalItems, completedItems |-> 0, startedAt |-> t,
     completedAt |-> Null, error |-> Null]

createAIJob_append(S, t, title, totalItems) ==
    LET newCounter == S.aiJobIdCounter + 1
        job == newJob(newCounter, title, totalItems, t)
    IN  saveAIJobs([S EXCEPT !.aiJobIdCounter = newCounter,
                             !.aiJobs = S.aiJobs \o <<job>>], t)

createAIJob(S, t, title, totalItems) ==
    LET newCounter == S.aiJobIdCounter + 1
        job == newJob(newCounter, title, totalItems, t)
    IN  saveAIJobs([S EXCEPT !.aiJobIdCounter = newCounter,
                             !.aiJobs = <<job>> \o S.aiJobs], t)

renderAIJobsList_noTrim(S, container) == S

renderAIJobsList(S, container) ==
    IF ~container THEN S
    ELSE IF Len(S.aiJobs) > MAX_JOBS
         THEN [S EXCEPT !.aiJobs = SubSeq(S.aiJobs, 1, MAX_JOBS)]
         ELSE S

HasJob(jobs, jobId) == \E k \in 1..Len(jobs) : jobs[k].id = jobId

(* Array.prototype.find: the first job with that id *)
FindJob(jobs, jobId) ==
    CHOOSE k \in 1..Len(jobs) :
        jobs[k].id = jobId /\ \A m \in 1..(k - 1) : jobs[m].id # jobId

(* Object.assign(job, updates) *)
assign(job, updates) ==
    [f \in DOMAIN job |-> IF f \in DOMAIN updates THEN updates[f] ELSE job[f]]

stampCompletedAt_onlyCompleted(job, updates, t) ==
    IF "status" \in DOMAIN updates /\ updates.status = "completed"
    THEN [job EXCEPT !.completedAt = Some(t)]
    ELSE job

(* updateAIJob: stamp completedAt when the update carries a final status *)
stampCompletedAt(job, updates, t) ==
    IF "status" \in DOMAIN updates /\ Terminal(updates.status)
    THEN [job EXCEPT !.completedAt = Some(t)]
    ELSE job

updateAIJob_alwaysSave(S, t, jobId, updates, container) ==
    IF ~HasJob(S.aiJobs, jobId) THEN saveAIJobs(S, t)
    ELSE LET k == FindJob(S.aiJobs, jobId)
             job == stampCompletedAt(assign(S.aiJobs[k], updates), updates, t)
         IN  renderAIJobsList(
                 saveAIJobs([S EXCEPT !.aiJobs[k] = job], t), container)

updateAIJob_restart(S, t, jobId, updates, container) ==
    IF ~HasJob(S.aiJobs, jobId) THEN S
    ELSE LET k == FindJob(S.aiJobs, jobId)
             job == stampCompletedAt(assign(S.aiJobs[k], updates), updates, t)
         IN  renderAIJobsList(
                 saveAIJobs([S EXCEPT !.aiJobs[k] =
                                [job EXCEPT !.startedAt = t]], t), container)

(* updateAIJob up to its call of saveAIJobs, for a job that is found *)
assignAndSave(S, t, jobId, updates) ==
    LET k == FindJob(S.aiJobs, jobId)
        job == stampCompletedAt(assign(S.aiJobs[k], updates), updates, t)
    IN  saveAIJobs([S EXCEPT !.aiJobs[k] = job], t)

updateAIJob(S, t, jobId, updates, container) ==
    IF ~HasJob(S.aiJobs, jobId) THEN S
    ELSE renderAIJobsList(assignAndSave(S, t, jobId, updates), container)

(* updateAIJobsUI: the text it gives the count badge, activeJobs.length *)
updateAIJobsUI(jobs) ==
    Cardinality({m \in 1..Len(jobs) :
                    jobs[m].status \in {"pending", "processing"}})

----------------------------------------------------------------------------
(* History of the store calls a step makes.  W is a store extended with    *)
(* the log of the calls made so far in the step and the log of created ids *)

StoreOf(W) ==
    [aiJobs |-> W.aiJobs, aiJobIdCounter |-> W.aiJobIdCounter,
     stored |-> W.stored]

WithStore(W, S, entry, ids) ==
    [aiJobs |-> S.aiJobs, aiJobIdCounter |-> S.aiJobIdCounter,
     stored |-> S.stored, calls |-> Append(W.calls, entry),
     createLog |-> W.createLog \o ids,
     badge |-> IF entry.badge = Null THEN W.badge ELSE entry.badge[1]]

JobOf(jobs, jobId) ==
    IF HasJob(jobs, jobId) THEN Some(jobs[FindJob(jobs, jobId)]) ELSE Null

(* the first job of a persisted record, and its counter *)
StoredHead(item) ==
    IF item = Null THEN Null
    ELSE IF ~WellFormed(item[1]) THEN Null
    ELSE IF Len(item[1].jobs) = 0 THEN Null
    ELSE Some(item[1].jobs[1])

StoredCounter(item) ==
    IF item = Null THEN Null
    ELSE IF ~WellFormed(item[1]) THEN Null
    ELSE Some(item[1].counter)

(* persisted: whether the call reached saveAIJobs; badge: what the call    *)
(* made the count badge show, Null when it did not reach updateAIJobsUI    *)
Entry(op, jobId, updates, S, S2, shown) ==
    [op |-> op, jobId |-> jobId, updates |-> updates, badge |-> shown,
     before |-> JobOf(S.aiJobs, jobId), after |-> JobOf(S2.aiJobs, jobId),
     len |-> Len(S2.aiJobs),
     head |-> IF Len(S2.aiJobs) = 0 THEN 0 ELSE S2.aiJobs[1].id,
     counterBefore |-> S.aiJobIdCounter, counterAfter |-> S2.aiJobIdCounter,
     storedHead |-> StoredHead(S2.stored),
     storedCounter |-> StoredCounter(S2.stored),
     persisted |-> CASE op = "create" -> TRUE
                     [] op = "update" -> HasJob(S.aiJobs, jobId)
                     [] op = "load" -> S.stored # Null
                                       /\ WellFormed(S.stored[1])]

CallCreate(W, t, title, totalItems) ==
    LET S == StoreOf(W)
        S2 == createAIJob(S, t, title, totalItems)
        id == S2.aiJobIdCounter
    IN  WithStore(W, S2,
                  Entry("create", id, Null, S, S2,
                        Some(updateAIJobsUI(S2.aiJobs))), <<id>>)

CallUpdate(W, t, jobId, updates, container) ==
    LET S == StoreOf(W)
        S2 == updateAIJob(S, t, jobId, updates, container)
        shown == IF HasJob(S.aiJobs, jobId)
                 THEN Some(updateAIJobsUI(
                               assignAndSave(S, t, jobId, updates).aiJobs))
                 ELSE Null
    IN  WithStore(W, S2, Entry("update", jobId, Some(updates), S, S2, shown),
                  <<>>)

CallLoad(W, t) ==
    LET S == StoreOf(W)
        S2 == loadAIJobs(S, t)
    IN  WithStore(W, S2,
                  Entry("load", 0, Null, S, S2,
                        Some(updateAIJobsUI(S2.aiJobs))), <<>>)

W0 ==
    [aiJobs |-> aiJobs, aiJobIdCounter |-> aiJobIdCounter, stored |-> stored,
     calls |-> <<>>, createLog |-> createLog, badge |-> badge]

Commit(W) ==
    /\ aiJobs' = W.aiJobs
    /\ aiJobIdCounter' = W.aiJobIdCounter
    /\ stored' = W.stored
    /\ calls' = W.calls
    /\ createLog' = W.createLog
    /\ badge' = W.badge
    /\ UNCHANGED modelVars

----------------------------------------------------------------------------
(* Background processors *)

(* a processor can be started: the model bounds the jobs created and the  *)
(* processors in flight                                                    *)
CanStart ==
    /\ Len(createLog) < MaxNewJobs
    /\ Cardinality(procs) < NumProcs

(* create the job and mark it processing: the synchronous prefix of every  *)
(* processor, up to its first await                                        *)
Begin(kind, title, n, shouldAICleanup, hasKey, pc) ==
    LET W1 == CallCreate(W0, now, title, n)
        id == W1.aiJobIdCounter
        W2 == CallUpdate(W1, now, id, [status |-> "processing"],
                         hasListContainer)
    IN  /\ Commit(W2)
        /\ procs' = procs \cup {[pc |-> pc, kind |-> kind, jobId |-> id,
                                  i |-> 0, n |-> n,
                                  shouldAICleanup |-> shouldAICleanup,
                                  hasKey |-> hasKey]}
        /\ UNCHANGED now

Fail_silent(p, W, msg) ==
    /\ Commit(W)
    /\ procs' = procs \ {p}
    /\ UNCHANGED now

Fail_errorOnly(p, W, msg) ==
    /\ Commit(CallUpdate(W, now, p.jobId, [error |-> Some(msg)],
                         hasListContainer))
    /\ procs' = procs \ {p}
    /\ UNCHANGED now

(* the catch block of a processor: mark the job failed, and return *)
Fail(p, W, msg) ==
    /\ Commit(CallUpdate(W, now, p.jobId,
                         [status |-> "failed", error |-> Some(msg)],
                         hasListContainer))
    /\ procs' = procs \ {p}
    /\ UNCHANGED now

(* a step that makes no store call and suspends at the next await *)
Await(p, pc) ==
    /\ procs' = (procs \ {p}) \cup {[p EXCEPT !.pc = pc]}
    /\ calls' = <<>>
    /\ UNCHANGED <<aiJobs, aiJobIdCounter, stored, now, createLog, badge>>
    /\ UNCHANGED modelVars

(* the update that marks the job completed and the statements that follow  *)
(* it inside the same try block; openReadingPane of the still open save    *)
(* raises when the key points the AI returned are not a list               *)
Finish(p, updates) ==
    LET W1 == CallUpdate(W0, now, p.jobId, updates, hasListContainer)
    IN  \E paneRaises \in BOOLEAN :
            IF paneRaises
            THEN Fail(p, W1, ErrorMsg)
            ELSE /\ Commit(W1)
                 /\ procs' = procs \ {p}
                 /\ UNCHANGED now

(* -- transcript cleanup -- *)

(* prettifyCurrentTranscript returns before any job exists when getAIConfig *)
(* finds no key for the selected provider                                  *)
PrettifyStart ==
    /\ CanStart
    /\ \E hasKey \in BOOLEAN :
          /\ hasKey
          /\ Begin("prettify", "AI cleanup", 1, TRUE, hasKey, "ai")

PrettifyAIReturns(p) ==
    /\ p.kind = "prettify"
    /\ p.pc = "ai"
    /\ \E result \in {"ok", "null", "nocontent"} :
          IF result = "ok" THEN Await(p, "db") ELSE Fail(p, W0, ErrorMsg)

PrettifyDbReturns(p) ==
    /\ p.kind = "prettify"
    /\ p.pc = "db"
    /\ Finish(p, [status |-> "completed"])

(* -- AI enrichment -- *)

(* aiEnrichContent returns before any job exists when there is no key *)
EnrichStart ==
    /\ CanStart
    /\ \E hasKey \in BOOLEAN :
          /\ hasKey
          /\ Begin("enrich", "Enrich", 1, TRUE, hasKey, "ai")

EnrichAIReturns(p) ==
    /\ p.kind = "enrich"
    /\ p.pc = "ai"
    /\ \E raises \in BOOLEAN :
          IF raises THEN Fail(p, W0, ErrorMsg) ELSE Await(p, "db")

EnrichComplete(p) ==
    Finish(p, [status |-> "completed", completedItems |-> 1])

EnrichDbReturns(p) ==
    /\ p.kind = "enrich"
    /\ p.pc = "db"
    /\ \E error \in BOOLEAN, hasTags \in BOOLEAN :
          IF error THEN Fail(p, W0, ErrorMsg)
          ELSE IF hasTags THEN Await(p, "tags")
          ELSE EnrichComplete(p)

EnrichTagsReturn(p) ==
    /\ p.kind = "enrich"
    /\ p.pc = "tags"
    /\ \E raises \in BOOLEAN :
          IF raises THEN Fail(p, W0, ErrorMsg) ELSE EnrichComplete(p)

(* -- Apple Podcasts import -- *)

canUseAI_ignoreKey(shouldAICleanup, hasKey) == shouldAICleanup

(* const canUseAI = shouldAICleanup && config.hasKey *)
canUseAI(shouldAICleanup, hasKey) == shouldAICleanup /\ hasKey

(* the import starts whether or not there is a key: without one, or        *)
(* without the cleanup option, the items are imported as they are          *)
PodcastsStart ==
    /\ CanStart
    /\ \E n \in 1..MaxItems, shouldAICleanup \in BOOLEAN, hasKey \in BOOLEAN :
          Begin("podcasts",
                IF canUseAI(shouldAICleanup, hasKey) THEN "AI processing"
                ELSE "Importing",
                n, shouldAICleanup, hasKey,
                IF canUseAI(shouldAICleanup, hasKey) THEN "ai" ELSE "insert")

PodcastsAIReturns_skipInsert(p) ==
    /\ p.kind = "podcasts"
    /\ p.pc = "ai"
    /\ \E result \in {"ok", "null", "nocontent"} :
          IF result = "nocontent" THEN Fail(p, W0, ErrorMsg)
          ELSE IF p.i + 1 < p.n
          THEN /\ procs' = (procs \ {p}) \cup {[p EXCEPT !.i = p.i + 1]}
               /\ calls' = <<>>
               /\ UNCHANGED <<aiJobs, aiJobIdCounter, stored, now, createLog, badge>>
               /\ UNCHANGED modelVars
          ELSE Await(p, "insert")

(* processTranscriptWithAI returns a parsed result, or null after an error *)
(* it caught; building saveData raises when the result has no content      *)
PodcastsAIReturns(p) ==
    /\ p.kind = "podcasts"
    /\ p.pc = "ai"
    /\ \E result \in {"ok", "null", "nocontent"} :
          IF result = "nocontent" THEN Fail(p, W0, ErrorMsg)
          ELSE Await(p, "insert")

itemsDone_off(i) == i + 2

(* the progress update of the item loop: completedItems: i + 1 *)
itemsDone(i) == i + 1

(* the insert resolves, with or without an error; either way the item is   *)
(* counted, and after the last item the job is marked completed            *)
PodcastsInsertReturns(p) ==
    /\ p.kind = "podcasts"
    /\ p.pc = "insert"
    /\ LET i == p.i
           W1 == CallUpdate(W0, now, p.jobId,
                            [completedItems |-> itemsDone(i)], hasListContainer)
       IN  IF i + 1 < p.n
           THEN /\ Commit(W1)
                /\ procs' = (procs \ {p}) \cup
                       {[p EXCEPT !.i = i + 1,
                                  !.pc = IF canUseAI(p.shouldAICleanup,
                                                     p.hasKey)
                                         THEN "ai" ELSE "insert"]}
                /\ UNCHANGED now
           ELSE /\ Commit(CallUpdate(W1, now, p.jobId,
                                     [status |-> "completed"],
                                     hasListContainer))
                /\ procs' = procs \ {p}
                /\ UNCHANGED now

----------------------------------------------------------------------------
(* Model tiers (lib/utils.js).  Identifiers are strings; a score is kept   *)
(* in units of 1 / ScoreScale so that the date part stays an integer.      *)

Providers == {"claude", "openai"}

Tiers == {"fast", "balanced", "quality"}

AI_TIERS ==
    [fast |->
        [claude |-> [patterns |-> <<"haiku">>, exclude |-> <<>>,
                     default |-> "claude-3-5-haiku-20241022"],
         openai |-> [patterns |-> <<"mini">>, exclude |-> <<>>,
                     default |-> "gpt-4o-mini"]],
     balanced |->
        [claude |-> [patterns |-> <<"sonnet">>, exclude |-> <<>>,
                     default |-> "claude-sonnet-4-20250514"],
         openai |-> [patterns |-> <<"gpt-4o", "gpt-4.1", "gpt-5">>,
                     exclude |-> <<"mini", "nano">>,
                     default |-> "gpt-4o"]],
     quality |->
        [claude |-> [patterns |-> <<"opus">>, exclude |-> <<>>,
                     default |-> "claude-opus-4-20250514"],
         openai |-> [patterns |-> <<"o1", "o3">>, exclude |-> <<"mini">>,
                     default |-> "o1"]]]

(* the divisor of the date part of a score *)
ScoreScale == 100000

UpperCase == "ABCDEFGHIJKLMNOPQRSTUVWXYZ"
LowerCase == "abcdefghijklmnopqrstuvwxyz"
Digits == "0123456789"

charAt(str, i) == SubSeq(str, i, i)

indexOf(str, c) ==
    IF \E k \in 1..Len(str) : charAt(str, k) = c
    THEN CHOOSE k \in 1..Len(str) : charAt(str, k) = c
    ELSE 0

RECURSIVE toLowerCase(_)
toLowerCase(str) ==
    IF Len(str) = 0 THEN ""
    ELSE LET c == charAt(str, 1)
             k == indexOf(UpperCase, c)
         IN  (IF k = 0 THEN c ELSE charAt(LowerCase, k))
                 \o toLowerCase(SubSeq(str, 2, Len(str)))

includes(str, sub) ==
    \E k \in 1..(Len(str) - Len(sub) + 1) :
        SubSeq(str, k, k + Len(sub) - 1) = sub

startsWith(str, sub) ==
    Len(str) >= Len(sub) /\ SubSeq(str, 1, Len(sub)) = sub

isDigit(c) == indexOf(Digits, c) # 0

(* id.match(/(\d{8})/): the first eight consecutive digits, if any *)
dateMatch(id) ==
    LET at == {k \in 1..(Len(id) - 7) :
                  \A j \in k..(k + 7) : isDigit(charAt(id, j))}
    IN  IF at = {} THEN Null
        ELSE Some(SubSeq(id, CHOOSE k \in at : \A j \in at : k <= j,
                         (CHOOSE k \in at : \A j \in at : k <= j) + 7))

RECURSIVE parseInt(_)
parseInt(str) ==
    IF Len(str) = 0 THEN 0
    ELSE parseInt(SubSeq(str, 1, Len(str) - 1)) * 10
             + (indexOf(Digits, charAt(str, Len(str))) - 1)

(* the family and version part of scoreModel for claude *)
claudeFamily(id) ==
    IF includes(id, "opus") THEN 1000
    ELSE IF includes(id, "sonnet") THEN 500
    ELSE IF includes(id, "haiku") THEN 100
    ELSE 0

claudeVersion(id) ==
    IF includes(id, "sonnet-4") \/ includes(id, "opus-4") THEN 400
    ELSE IF includes(id, "3-7") \/ includes(id, "3.7") THEN 300
    ELSE IF includes(id, "3-5") \/ includes(id, "3.5") THEN 200
    ELSE IF includes(id, "3-") \/ includes(id, "3.") THEN 100
    ELSE 0

claudeDate(id) ==
    IF dateMatch(id) = Null THEN 0 ELSE parseInt(dateMatch(id)[1])

openaiReasoning(id) ==
    IF startsWith(id, "o3") THEN 2000
    ELSE IF startsWith(id, "o1") /\ ~includes(id, "mini") THEN 1500
    ELSE IF startsWith(id, "o1-mini") THEN 800
    ELSE 0

openaiGpt(id) ==
    IF includes(id, "gpt-5") /\ ~includes(id, "mini") THEN 1400
    ELSE IF includes(id, "gpt-5-mini") THEN 700
    ELSE IF includes(id, "gpt-4.1") /\ ~includes(id, "mini") THEN 1200
    ELSE IF includes(id, "gpt-4.1-mini") THEN 600
    ELSE IF includes(id, "gpt-4o") /\ ~includes(id, "mini") THEN 1000
    ELSE IF includes(id, "gpt-4o-mini") THEN 500
    ELSE IF includes(id, "gpt-4-turbo") THEN 900
    ELSE IF includes(id, "gpt-4") THEN 800
    ELSE IF includes(id, "gpt-3.5") THEN 300
    ELSE 0

(* scoreModel, times ScoreScale *)
scoreModel(modelId, provider) ==
    LET id == toLowerCase(modelId)
    IN  IF provider = "claude"
        THEN ((claudeFamily(id) + claudeVersion(id)) * ScoreScale)
                 + claudeDate(id)
        ELSE IF provider = "openai"
        THEN (openaiReasoning(id) + openaiGpt(id)) * ScoreScale
        ELSE 0

modelMatchesTier(modelId, tierConfig) ==
    LET id == toLowerCase(modelId)
    IN  IF \E k \in 1..Len(tierConfig.exclude) :
               includes(id, toLowerCase(tierConfig.exclude[k]))
        THEN FALSE
        ELSE \E k \in 1..Len(tierConfig.patterns) :
                 includes(id, toLowerCase(tierConfig.patterns[k]))

sortByScore_unsorted(models, provider) == models

(* matching.sort((a, b) => scoreModel(b) - scoreModel(a)): Array.sort is   *)
(* stable, so models of equal score keep the order of the list             *)
RECURSIVE sortByScore(_, _)
sortByScore(models, provider) ==
    IF Len(models) = 0 THEN <<>>
    ELSE LET a == Head(models)
             rest == sortByScore(Tail(models), provider)
             k == Cardinality({j \in 1..Len(rest) :
                     scoreModel(rest[j], provider) > scoreModel(a, provider)})
         IN  SubSeq(rest, 1, k) \o <<a>> \o SubSeq(rest, k + 1, Len(rest))

(* A cache item is absent (Null) or holds a text: the empty text, a text   *)
(* that is not JSON, JSON that is not a list, or a list of model ids,       *)
(* which may also hold an entry that is not a string (junk)                 *)
EmptyText == [json |-> "empty"]
NotJson == [json |-> "unparsable"]
NotList == [json |-> "notList"]
ModelList(models, junk) == [json |-> "list", models |-> models, junk |-> junk]

parseRaises_junkOk(item) == item.json # "list"

(* the try block of resolveModelForTier raises: JSON.parse, models.filter  *)
(* or id.toLowerCase                                                       *)
parseRaises(item) == item.json # "list" \/ item.junk

(* AI_TIERS is an object literal: next to its own three properties it     *)
(* answers for the property names it inherits from Object.prototype        *)
ObjectPrototypeKeys ==
    {"constructor", "toString", "valueOf", "hasOwnProperty", "__proto__"}

(* AI_TIERS[tier]: the tier's own entry, an inherited value (which is      *)
(* truthy and has no property of a provider's name), or undefined          *)
tierLookup(tier) ==
    IF tier \in DOMAIN AI_TIERS THEN Some(AI_TIERS[tier])
    ELSE IF tier \in ObjectPrototypeKeys THEN Some([inherited |-> tier])
    ELSE Null

resolveModelForTier(provider, tier, storage) ==
    LET tierConfig == IF tierLookup(tier) # Null THEN tierLookup(tier)[1]
                      ELSE AI_TIERS.balanced
    IN  IF provider \notin DOMAIN tierConfig
        THEN IF provider \in DOMAIN AI_TIERS.balanced
             THEN AI_TIERS.balanced[provider].default
             ELSE ""
        ELSE LET providerConfig == tierConfig[provider]
                 cached == storage[provider]
                 matching == SelectSeq(cached[1].models,
                                 LAMBDA id : modelMatchesTier(id, providerConfig))
             IN  IF cached = Null \/ cached[1].json = "empty"
                 THEN providerConfig.default
                 ELSE IF parseRaises(cached[1])
                 THEN providerConfig.default
                 ELSE IF Len(matching) > 0
                 THEN sortByScore(matching, provider)[1]
                 ELSE providerConfig.default

----------------------------------------------------------------------------
(* The page *)

(* module state of web/lib/state.js before init() runs *)
FreshStore(record) ==
    [aiJobs |-> <<>>, aiJobIdCounter |-> 0, stored |-> record]

(* init(): the page is (re)loaded; every processor of the old page is gone *)
PageLoad ==
    /\ Commit(CallLoad([FreshStore(stored) EXCEPT !.aiJobs = <<>>]
                          @@ [calls |-> <<>>, createLog |-> createLog,
                              badge |-> 0], now))
    /\ procs' = {}
    /\ UNCHANGED now

Tick ==
    /\ now + TickHours <= MaxTime
    /\ now' = now + TickHours
    /\ calls' = <<>>
    /\ UNCHANGED <<aiJobs, aiJobIdCounter, stored, procs, createLog, badge>>
    /\ UNCHANGED modelVars

(* a job an earlier session has completed *)
OldJob(id) ==
    [newJob(id, "Enrich", 1, 0) EXCEPT !.status = "completed",
                                        !.completedItems = 1,
                                        !.completedAt = Some(0)]

OldRecord(k) ==
    saveAIJobs([aiJobs |-> [j \in 1..k |-> OldJob(k + 1 - j)],
                aiJobIdCounter |-> k, stored |-> Null], 0).stored

(* the page after init() has loaded the record it found *)
InitWith(record) ==
    /\ now = 0
    /\ procs = {}
    /\ createLog = <<>>
    /\ LET W == CallLoad(FreshStore(record)
                            @@ [calls |-> <<>>, createLog |-> <<>>,
                                badge |-> 0], 0)
       IN  /\ badge = W.badge
           /\ aiJobs = W.aiJobs
           /\ aiJobIdCounter = W.aiJobIdCounter
           /\ stored = W.stored
           /\ calls = W.calls

(* no models cache is stored and no model has been resolved *)
NoModels ==
    /\ modelsCache = [provider \in Providers |-> Null]
    /\ resolved = Null
    /\ refreshed = Null
    /\ apiKeys = [provider \in Providers |-> FALSE]
    /\ fetches = {}
    /\ resetDone = [provider \in Providers |-> FALSE]

(* first visit: nothing is persisted yet *)
Init == InitWith(Null) /\ NoModels

(* a visit that finds the MAX_JOBS - 1 jobs an earlier session completed *)
InitFull == InitWith(OldRecord(MAX_JOBS - 1)) /\ NoModels

Next ==
    \/ PrettifyStart
    \/ \E p \in procs : PrettifyAIReturns(p)
    \/ \E p \in procs : PrettifyDbReturns(p)
    \/ EnrichStart
    \/ \E p \in procs : EnrichAIReturns(p)
    \/ \E p \in procs : EnrichDbReturns(p)
    \/ \E p \in procs : EnrichTagsReturn(p)
    \/ PodcastsStart
    \/ \E p \in procs : PodcastsAIReturns(p)
    \/ \E p \in procs : PodcastsInsertReturns(p)
    \/ PageLoad
    \/ Tick

Spec == Init /\ [][Next]_vars

SpecFull == InitFull /\ [][Next]_vars

(* -- a busy session -- *)

(* the import of MaxItems podcasts with AI cleanup that created job 1; it   *)
(* waits for the insert of its first item                                   *)
FirstImport ==
    [pc |-> "insert", kind |-> "podcasts", jobId |-> 1, i |-> 0,
     n |-> MaxItems, shouldAICleanup |-> TRUE, hasKey |-> TRUE]

(* the list after that import has started and MAX_JOBS - 1 enrichments,     *)
(* started after it, have completed within the hour                         *)
BusyJobs ==
    [j \in 1..MAX_JOBS |->
        IF j = MAX_JOBS
        THEN [newJob(1, "AI processing", MaxItems, 0)
                 EXCEPT !.status = "processing"]
        ELSE OldJob(MAX_JOBS + 2 - j)]

(* the page in the middle of such a session *)
InitBusy ==
    /\ now = 0
    /\ procs = {FirstImport}
    /\ createLog = <<>>
    /\ calls = <<>>
    /\ aiJobs = BusyJobs
    /\ aiJobIdCounter = MAX_JOBS
    /\ stored = saveAIJobs([aiJobs |-> BusyJobs, aiJobIdCounter |-> MAX_JOBS,
                            stored |-> Null], 0).stored
    /\ badge = updateAIJobsUI(BusyJobs)
    /\ NoModels

SpecBusy == InitBusy /\ [][Next]_vars

(* the positions at which a processor waits for a call to return *)
Awaits == {"ai", "db", "tags", "insert"}

(* processor p has been resumed after the call it awaited returned: it is  *)
(* at its next await, or it has returned                                   *)
Resumed(p) ==
    \/ procs' = procs \ {p}
    \/ \E pc \in Awaits, i \in 0..MaxItems :
          procs' = (procs \ {p}) \cup {[p EXCEPT !.pc = pc, !.i = i]}

(* every call a processor awaits returns: while a processor is in flight,  *)
(* some pending promise is settled and the event loop runs its continuation *)
CallsReturn == WF_procs(\E p \in procs : Resumed(p))

SpecLive == Init /\ [][Next]_vars /\ CallsReturn

(* -- model resolution on its own -- *)

ClaudeIds ==
    {"claude-3-5-sonnet-20241022", "claude-sonnet-4-20250514",
     "claude-3-7-sonnet-20250219", "claude-3-5-haiku-20241022",
     "Claude-Opus-4-20250514", "claude-3-7-sonnet-latest",
     "claude-3-5-sonnet-20241022-v2"}

OpenAIIds ==
    {"gpt-4o", "gpt-4o-mini", "gpt-4o-2024-08-06", "o1", "o3-mini",
     "gpt-4.1", "GPT-5"}

IdsOf(provider) == IF provider = "claude" THEN ClaudeIds ELSE OpenAIIds

(* the lists of at most MaxCatalog different identifiers *)
Catalogs(ids) ==
    UNION {{c \in [1..n -> ids] : \A j, k \in 1..n : j # k => c[j] # c[k]} :
             n \in 0..MaxCatalog}

CacheItems(provider) ==
    {Null, Some(EmptyText), Some(NotJson), Some(NotList)}
        \cup {Some(ModelList(c, junk)) :
                 c \in Catalogs(IdsOf(provider)), junk \in BOOLEAN}

InitResolve ==
    /\ InitWith(Null)
    /\ \E provider \in Providers :
          \E item \in CacheItems(provider) :
              modelsCache = [q \in Providers |->
                                IF q = provider THEN item ELSE Null]
    /\ resolved = Null
    /\ refreshed = Null
    /\ apiKeys = [q \in Providers |-> modelsCache[q] # Null]
    /\ fetches = {}
    /\ resetDone = [q \in Providers |-> FALSE]

Resolve_caching ==
    /\ \E provider \in Providers, tier \in Tiers :
          /\ resolved' = Some([provider |-> provider, tier |-> tier,
                                cached |-> modelsCache[provider],
                                model |-> resolveModelForTier(provider, tier,
                                                              modelsCache)])
          /\ modelsCache' =
                 [modelsCache EXCEPT ![provider] =
                     Some(ModelList(<<resolveModelForTier(provider, tier,
                                                          modelsCache)>>,
                                    FALSE))]
    /\ UNCHANGED <<jobVars, refreshed, keyVars>>

(* a caller (getAIConfig, the tier hint) resolves a tier for a provider *)
Resolve ==
    /\ \E provider \in Providers, tier \in Tiers :
          resolved' = Some([provider |-> provider, tier |-> tier,
                            cached |-> modelsCache[provider],
                            model |-> resolveModelForTier(provider, tier,
                                                          modelsCache)])
    /\ UNCHANGED <<jobVars, modelsCache, refreshed, keyVars>>

NextResolve == Resolve

SpecResolve == InitResolve /\ [][NextResolve]_vars

(* -- model resolution from the stored settings -- *)

(* what localStorage['stash-ai-tier'] can hold: nothing, a tier, the empty *)
(* text, or any other text                                                 *)
StoredTiers ==
    {Null} \cup {Some(t) : t \in Tiers \cup {"", "premium", "constructor"}}

(* getAIConfig: localStorage.getItem('stash-ai-tier') || 'balanced' *)
tierOrBalanced(storedTier) ==
    IF storedTier = Null THEN "balanced"
    ELSE IF storedTier[1] = "" THEN "balanced"
    ELSE storedTier[1]

(* getAIConfig resolves the stored tier for the selected provider *)
getAIConfig ==
    /\ \E provider \in Providers, storedTier \in StoredTiers :
          resolved' = Some([provider |-> provider,
                            tier |-> tierOrBalanced(storedTier),
                            storedTier |-> storedTier,
                            cached |-> modelsCache[provider],
                            model |-> resolveModelForTier(
                                          provider, tierOrBalanced(storedTier),
                                          modelsCache)])
    /\ UNCHANGED <<jobVars, modelsCache, refreshed, keyVars>>

NextConfig == getAIConfig

SpecConfig == InitResolve /\ [][NextConfig]_vars

(* -- refresh of the model caches -- *)

(* an entry of the data list of a provider's /v1/models answer *)
Listed(type, id) == [type |-> type, id |-> id]

ClaudeListed ==
    {Listed("model", "claude-sonnet-4-20250514"),
     Listed("model", "claude-3-5-haiku-20241022"),
     Listed("alias", "claude-latest")}

OpenAIListed ==
    {Listed("model", "gpt-4o"), Listed("model", "o1"),
     Listed("model", "text-embedding-3-small"),
     Listed("model", "gpt-4o-audio-preview")}

ListedOf(provider) ==
    IF provider = "claude" THEN ClaudeListed ELSE OpenAIListed

(* the answers of a listing call: the fetch raises, the status is not a    *)
(* success, the body cannot be read as a list of entries with an id, or    *)
(* the body holds a data list of at most MaxListing entries                *)
Responses(provider) ==
    {[outcome |-> o, data |-> <<>>] : o \in {"raises", "notOk", "badBody"}}
        \cup {[outcome |-> "ok", data |-> d] :
                 d \in UNION {{c \in [1..n -> ListedOf(provider)] :
                                   \A j, k \in 1..n : j # k => c[j] # c[k]} :
                               n \in 0..MaxListing}}

(* the filters of the two refresh methods *)
keepListed(provider, m) ==
    IF provider = "claude"
    THEN m.type = "model" /\ includes(m.id, "claude")
    ELSE LET id == toLowerCase(m.id)
         IN  /\ \/ includes(id, "gpt-4") \/ includes(id, "gpt-5")
                \/ includes(id, "gpt-3.5")
                \/ startsWith(id, "o1") \/ startsWith(id, "o3")
             /\ ~includes(id, "instruct") /\ ~includes(id, "vision")
             /\ ~includes(id, "audio") /\ ~includes(id, "realtime")
             /\ ~includes(id, "embed")

idsOf(entries) == [k \in 1..Len(entries) |-> entries[k].id]

refreshModelsCache_merge(storage, provider, response) ==
    IF response.outcome # "ok" THEN storage
    ELSE [storage EXCEPT ![provider] =
             Some(ModelList(
                 (IF storage[provider] = Null THEN <<>>
                  ELSE storage[provider][1].models)
                 \o idsOf(SelectSeq(response.data,
                                    LAMBDA m : keepListed(provider, m))),
                 FALSE))]

(* refreshClaudeModelsCache / refreshOpenAIModelsCache once the listing    *)
(* call has returned: nothing is written unless the answer was read        *)
refreshModelsCache(storage, provider, response) ==
    IF response.outcome # "ok" THEN storage
    ELSE [storage EXCEPT ![provider] =
             Some(ModelList(
                 idsOf(SelectSeq(response.data,
                                 LAMBDA m : keepListed(provider, m))),
                 FALSE))]

Refresh(provider) ==
    /\ \E response \in Responses(provider) :
          /\ modelsCache' = refreshModelsCache(modelsCache, provider, response)
          /\ refreshed' = Some([provider |-> provider, response |-> response,
                                before |-> modelsCache])
    /\ UNCHANGED <<jobVars, resolved, keyVars>>

refreshClaudeModelsCache == Refresh("claude")

refreshOpenAIModelsCache == Refresh("openai")

NextRefresh == refreshClaudeModelsCache \/ refreshOpenAIModelsCache

SpecRefresh == Init /\ [][NextRefresh]_vars

(* -- keys: validation, startup refresh, reset -- *)

(* validateClaudeKey / validateOpenAIKey when the listing call made with    *)
(* the typed key has succeeded: the key is stored and the refresh started   *)
validateKey(provider) ==
    /\ provider \notin fetches
    /\ apiKeys' = [apiKeys EXCEPT ![provider] = TRUE]
    /\ fetches' = fetches \cup {provider}
    /\ resetDone' = [resetDone EXCEPT ![provider] = FALSE]
    /\ UNCHANGED <<jobVars, modelsCache, resolved, refreshed>>

(* init() of a newly loaded page calls refreshModelCacheInBackground: a    *)
(* refresh starts for every provider that has a key; the calls of the old   *)
(* page are gone                                                            *)
refreshModelCacheInBackground ==
    /\ fetches' = {provider \in Providers : apiKeys[provider]}
    /\ resetDone' = [provider \in Providers |-> FALSE]
    /\ UNCHANGED <<jobVars, modelsCache, resolved, refreshed, apiKeys>>

(* the listing call of a refresh in flight returns, and the refresh runs    *)
(* to its end                                                               *)
RefreshReturns(provider) ==
    /\ provider \in fetches
    /\ fetches' = fetches \ {provider}
    /\ \E response \in Responses(provider) :
          modelsCache' = refreshModelsCache(modelsCache, provider, response)
    /\ UNCHANGED <<jobVars, resolved, refreshed, apiKeys, resetDone>>

(* resetClaudeKey / resetOpenAIKey: the key and the models cache of the     *)
(* provider are removed                                                     *)
resetKey(provider) ==
    /\ apiKeys' = [apiKeys EXCEPT ![provider] = FALSE]
    /\ modelsCache' = [modelsCache EXCEPT ![provider] = Null]
    /\ resetDone' = [resetDone EXCEPT ![provider] = TRUE]
    /\ UNCHANGED <<jobVars, resolved, refreshed, fetches>>

NextKeys ==
    \/ \E provider \in Providers : validateKey(provider)
    \/ refreshModelCacheInBackground
    \/ \E provider \in Providers : RefreshReturns(provider)
    \/ \E provider \in Providers : resetKey(provider)

SpecKeys == Init /\ [][NextKeys]_vars

(* a counter value found in an item that saveAIJobs did not write *)
StrayCounter == 3

CorruptItems ==
    {Unparsable, JsonNull, JobsNotList(StrayCounter), NullEntry(StrayCounter)}

(* a visit that finds no item, or an item that is not a record of jobs *)
InitCorrupt ==
    /\ \E item \in {Null} \cup {Some(c) : c \in CorruptItems} : InitWith(item)
    /\ NoModels

SpecCorrupt == InitCorrupt /\ [][Next]_vars

----------------------------------------------------------------------------
(* Properties *)

CallIdx == 1..Len(calls)

(* an update call that found its job and left it in the list *)
Applied(c) == c.op = "update" /\ c.before # Null /\ c.after # Null

PodcastTitles == {"AI processing", "Importing"}

(* C1: once a job's status is completed or failed, a later update call,    *)
(* whatever fields it carries, leaves the job's status, completedAt and    *)
(* error unchanged.                                                        *)
C1_TerminalImmutable ==
    \A k \in CallIdx :
        Applied(calls[k]) /\ Terminal(calls[k].before[1].status)
        => /\ calls[k].after[1].status = calls[k].before[1].status
           /\ calls[k].after[1].completedAt = calls[k].before[1].completedAt
           /\ calls[k].after[1].error = calls[k].before[1].error

LegalUpdateSteps ==
    {<<"pending", "processing">>, <<"processing", "completed">>,
     <<"processing", "failed">>}

LegalLoadSteps == {<<"pending", "failed">>, <<"processing", "failed">>}

(* a step that loads a persisted record *)
LoadStep ==
    /\ Len(calls') = 1
    /\ calls'[1].op = "load"
    /\ stored # Null

(* C2: a job's status changes only by pending->processing,                 *)
(* processing->completed and processing->failed, and by pending->failed    *)
(* and processing->failed at load; a job marked completed is never set to  *)
(* failed afterwards.                                                      *)
C2_LegalTransitions ==
    /\ [](\A k \in CallIdx :
            Applied(calls[k])
            => \/ calls[k].after[1].status = calls[k].before[1].status
               \/ <<calls[k].before[1].status, calls[k].after[1].status>>
                      \in LegalUpdateSteps)
    /\ [][LoadStep =>
            \A k \in 1..Len(stored[1].jobs), m \in 1..Len(aiJobs') :
                aiJobs'[m].id = stored[1].jobs[k].id
                => \/ aiJobs'[m].status = stored[1].jobs[k].status
                   \/ <<stored[1].jobs[k].status, aiJobs'[m].status>>
                          \in LegalLoadSteps]_vars

(* what load has to make of one job of the record *)
Recovered(sj, job, t) ==
    IF sj.status \in {"pending", "processing"}
    THEN /\ job.status = "failed"
         /\ job.error = Some(InterruptedMsg)
         /\ job.completedAt = Some(t)
    ELSE /\ job.status = sj.status
         /\ job.error = sj.error
         /\ job.completedAt # Null
         /\ toISOString(job.completedAt[1]) = sj.completedAt[1]

InStore(jobs, sj, t) ==
    \E m \in 1..Len(jobs) : jobs[m].id = sj.id /\ Recovered(sj, jobs[m], t)

NoneActive(jobs) ==
    \A m \in 1..Len(jobs) : jobs[m].status \notin {"pending", "processing"}

(* C3 as stated: after load every job stored as pending or processing is   *)
(* in the store as failed with the interruption error and a completedAt,   *)
(* every job stored as completed or failed keeps its status, error and     *)
(* completedAt, and no job in the store is pending or processing.          *)
C3_Original ==
    [][LoadStep =>
          /\ \A k \in 1..Len(stored[1].jobs) :
                InStore(aiJobs', stored[1].jobs[k], now)
          /\ NoneActive(aiJobs')]_vars

(* C3 amended: the above for the jobs of the record that started less than *)
(* JOB_RETENTION_HOURS before the load; the older ones are not in the      *)
(* store after the load, whatever their status.                            *)
C3_Recovery ==
    [][LoadStep =>
          /\ \A k \in 1..Len(stored[1].jobs) :
                IF parseDate(stored[1].jobs[k].startedAt)
                       > now - JOB_RETENTION_HOURS
                THEN InStore(aiJobs', stored[1].jobs[k], now)
                ELSE ~HasJob(aiJobs', stored[1].jobs[k].id)
          /\ NoneActive(aiJobs')]_vars

(* a load has just turned an interrupted job into a failed one *)
C3_Witness ==
    /\ Len(calls) = 1
    /\ calls[1].op = "load"
    /\ \E m \in 1..Len(aiJobs) :
          /\ aiJobs[m].error = Some(InterruptedMsg)
          /\ aiJobs[m].completedAt = Some(now)

(* C4: completedItems of a job never decreases from one state to the next, *)
(* nor from one update call to the next, and 0 <= completedItems <=        *)
(* totalItems in every state.                                              *)
C4_Progress ==
    /\ [](\A m \in 1..Len(aiJobs) :
            /\ 0 <= aiJobs[m].completedItems
            /\ aiJobs[m].completedItems <= aiJobs[m].totalItems)
    /\ [](\A k \in CallIdx :
            Applied(calls[k])
            => /\ calls[k].after[1].completedItems
                      >= calls[k].before[1].completedItems
               /\ calls[k].after[1].completedItems
                      <= calls[k].after[1].totalItems)
    /\ [][\A m \in 1..Len(aiJobs), n \in 1..Len(aiJobs') :
            aiJobs'[n].id = aiJobs[m].id
            => aiJobs'[n].completedItems >= aiJobs[m].completedItems]_vars

(* a multi-item import has reported all of its items *)
C4_Witness ==
    \E k \in CallIdx :
        /\ Applied(calls[k])
        /\ calls[k].after[1].totalItems > 1
        /\ calls[k].before[1].completedItems < calls[k].after[1].completedItems
        /\ calls[k].after[1].completedItems = calls[k].after[1].totalItems

(* C5: a podcast import of N items, also when the processing of an item    *)
(* raises an error, ends with status completed, completedItems = N and     *)
(* error = null.                                                           *)
C5_PartialFailure ==
    \A k \in CallIdx :
        /\ Applied(calls[k])
        /\ calls[k].after[1].title \in PodcastTitles
        /\ Terminal(calls[k].after[1].status)
        => /\ calls[k].after[1].status = "completed"
           /\ calls[k].after[1].completedItems = calls[k].after[1].totalItems
           /\ calls[k].after[1].error = Null

StampedIffTerminal(job) == (job.completedAt # Null) <=> Terminal(job.status)

(* C6: in every state, and after every store call, completedAt of a job is *)
(* non-null exactly when its status is completed or failed; the same holds *)
(* of the persisted record.                                                *)
C6_CompletedAtIffTerminal ==
    /\ \A m \in 1..Len(aiJobs) : StampedIffTerminal(aiJobs[m])
    /\ \A k \in CallIdx :
          calls[k].after # Null => StampedIffTerminal(calls[k].after[1])
    /\ stored # Null
       => \A m \in 1..Len(stored[1].jobs) :
             StampedIffTerminal(stored[1].jobs[m])

(* one job was stamped when it completed and again when it failed, while   *)
(* another job of the store is still processing and unstamped              *)
C6_Witness ==
    /\ \E k \in CallIdx :
          /\ Applied(calls[k])
          /\ calls[k].before[1].completedAt = Null
          /\ calls[k].after[1].status = "completed"
          /\ calls[k].after[1].completedAt = Some(now)
    /\ \E m \in 1..Len(aiJobs) :
          aiJobs[m].status = "failed" /\ aiJobs[m].completedAt = Some(now)
    /\ \E m \in 1..Len(aiJobs) :
          aiJobs[m].status = "processing" /\ aiJobs[m].completedAt = Null

(* the last store call of the step reached saveAIJobs *)
JustPersisted == calls # <<>> /\ calls[Len(calls)].persisted

(* C7: after every persist no job that started more than                   *)
(* JOB_RETENTION_HOURS before it remains in the in-memory list or in the   *)
(* persisted record, whatever its status.                                  *)
C7_Retention ==
    JustPersisted
    => /\ \A m \in 1..Len(aiJobs) :
             ~(now - aiJobs[m].startedAt > JOB_RETENTION_HOURS)
       /\ \A m \in 1..Len(stored[1].jobs) :
             ~(now - parseDate(stored[1].jobs[m].startedAt)
                   > JOB_RETENTION_HOURS)

(* an update of a job that was still processing found it, and the persist  *)
(* of that very update dropped it because of its age                       *)
C7_Witness ==
    /\ JustPersisted
    /\ \E k \in CallIdx :
          /\ calls[k].op = "update"
          /\ calls[k].before # Null
          /\ calls[k].before[1].status = "processing"
          /\ now - calls[k].before[1].startedAt > JOB_RETENTION_HOURS
          /\ calls[k].after = Null
          /\ ~HasJob(aiJobs, calls[k].jobId)

CurrentStore ==
    [aiJobs |-> aiJobs, aiJobIdCounter |-> aiJobIdCounter, stored |-> stored]

(* persist the store now, then load the record at hour t on a fresh page *)
RoundTrip(t) == loadAIJobs(FreshStore(saveAIJobs(CurrentStore, now).stored), t)

SameStore(S) ==
    /\ S.aiJobs = aiJobs
    /\ S.aiJobIdCounter = aiJobIdCounter

AllTerminal(jobs) == \A m \in 1..Len(jobs) : Terminal(jobs[m].status)

(* C8 as stated: persisting any store and loading the record yields the   *)
(* same jobs in the same order, field for field, and the same counter.     *)
C8_Original == SameStore(RoundTrip(now))

(* C8 amended: it does for a store of at most MAX_JOBS jobs that are all  *)
(* completed or failed and all younger than JOB_RETENTION_HOURS when the   *)
(* record is loaded.                                                       *)
C8_RoundTrip ==
    \A t \in {now, now + TickHours} :
        /\ Len(aiJobs) <= MAX_JOBS
        /\ AllTerminal(aiJobs)
        /\ \A m \in 1..Len(aiJobs) :
              aiJobs[m].startedAt > t - JOB_RETENTION_HOURS
        => SameStore(RoundTrip(t))

(* a store of a completed and a failed job whose dates have a time of day *)
C8_Witness ==
    /\ Len(aiJobs) <= MAX_JOBS
    /\ AllTerminal(aiJobs)
    /\ \E m \in 1..Len(aiJobs) :
          /\ aiJobs[m].status = "completed"
          /\ aiJobs[m].completedAt[1] % 24 # 0
          /\ aiJobs[m].startedAt > now - JOB_RETENTION_HOURS
    /\ \E m \in 1..Len(aiJobs) :
          /\ aiJobs[m].status = "failed"
          /\ aiJobs[m].error # Null
    /\ \A m \in 1..Len(aiJobs) :
          aiJobs[m].startedAt > now - JOB_RETENTION_HOURS

DistinctIds(jobs) ==
    \A m, n \in 1..Len(jobs) : m # n => jobs[m].id # jobs[n].id

Created(id) == \E k \in 1..Len(createLog) : createLog[k] = id

(* C9: the ids of the jobs in the store (and in the persisted record) are  *)
(* pairwise distinct, and every created job got an id greater than that of *)
(* every job created before it, evicted or not, before a reload or not.    *)
C9_Ids ==
    /\ DistinctIds(aiJobs)
    /\ stored # Null => DistinctIds(stored[1].jobs)
    /\ \A k, l \in 1..Len(createLog) : k < l => createLog[k] < createLog[l]
    /\ \A m \in 1..Len(aiJobs) :
          \/ Created(aiJobs[m].id)
          \/ \A k \in 1..Len(createLog) : aiJobs[m].id < createLog[k]
    /\ \A k \in 1..Len(createLog) : createLog[k] <= aiJobIdCounter

(* a job was created, the page was reloaded (which interrupted that job),  *)
(* and the next job was created                                            *)
C9_Witness ==
    /\ Len(createLog) = 2
    /\ HasJob(aiJobs, createLog[2])
    /\ \E m \in 1..Len(aiJobs) :
          /\ aiJobs[m].id = createLog[1]
          /\ aiJobs[m].error = Some(InterruptedMsg)

(* C10 as stated: after every create, update and load the in-memory list   *)
(* holds at most MAX_JOBS jobs.                                            *)
C10_Original ==
    \A k \in CallIdx :
        calls[k].op \in {"create", "update", "load"}
        => calls[k].len <= MAX_JOBS

(* C10 amended: the list holds at most MAX_JOBS jobs after every load and  *)
(* after every update that found its job (it renders the list); a create   *)
(* leaves up to MAX_JOBS + 1 jobs; the persisted record never holds more   *)
(* than MAX_JOBS.                                                          *)
C10_Cap ==
    /\ \A k \in CallIdx :
          /\ calls[k].op = "load" => calls[k].len <= MAX_JOBS
          /\ calls[k].op = "update" /\ calls[k].before # Null
             => calls[k].len <= MAX_JOBS
          /\ calls[k].op = "create" => calls[k].len <= MAX_JOBS + 1
    /\ stored # Null => Len(stored[1].jobs) <= MAX_JOBS

(* a create left MAX_JOBS + 1 jobs and the update after it cut the list *)
C10_Witness ==
    /\ Len(calls) >= 2
    /\ calls[1].op = "create"
    /\ calls[1].len = MAX_JOBS + 1
    /\ calls[2].op = "update"
    /\ calls[2].len = MAX_JOBS

(* a load of a page whose localStorage holds no usable record *)
CorruptLoadStep ==
    /\ Len(calls') = 1
    /\ calls'[1].op = "load"
    /\ (stored = Null \/ ~WellFormed(stored[1]))

(* C11: a load that finds the record absent, unparsable or otherwise       *)
(* corrupt leaves the store with an empty job list and a counter of zero.  *)
C11_CorruptLoad ==
    [][CorruptLoadStep => aiJobs' = <<>> /\ aiJobIdCounter' = 0]_vars

(* the ids createAIJob hands out on a page that starts without a record *)
JobIds == 1..MaxNewJobs

StatusIn(id, statuses) ==
    \E m \in 1..Len(aiJobs) :
        aiJobs[m].id = id /\ aiJobs[m].status \in statuses

TierMatch(id, provider, tier) ==
    LET cfg == AI_TIERS[tier][provider]
    IN  /\ \E k \in 1..Len(cfg.patterns) :
              includes(toLowerCase(id), toLowerCase(cfg.patterns[k]))
        /\ \A k \in 1..Len(cfg.exclude) :
              ~includes(toLowerCase(id), toLowerCase(cfg.exclude[k]))

(* the cache read by the last resolve call is a list of identifiers *)
ResolvedList ==
    /\ resolved # Null
    /\ resolved[1].cached # Null
    /\ resolved[1].cached[1].json = "list"
    /\ ~resolved[1].cached[1].junk

(* the identifiers of that list that match the tier of the call *)
Candidates ==
    {resolved[1].cached[1].models[k] :
        k \in {j \in 1..Len(resolved[1].cached[1].models) :
                  TierMatch(resolved[1].cached[1].models[j],
                            resolved[1].provider, resolved[1].tier)}}

P7Catalog ==
    <<"claude-3-5-sonnet-20241022", "claude-sonnet-4-20250514",
      "claude-3-7-sonnet-20250219">>

P7Call ==
    /\ ResolvedList
    /\ resolved[1].provider = "claude"
    /\ resolved[1].tier = "balanced"
    /\ resolved[1].cached[1].models = P7Catalog

(* C13: when the catalog holds an identifier that matches the tier, resolve *)
(* returns a matching identifier of the catalog whose score is maximal      *)
(* among the matching ones; for claude/balanced and the catalog of P7 it    *)
(* returns claude-sonnet-4-20250514.                                        *)
C13_BestCandidate ==
    /\ ResolvedList /\ Candidates # {}
       => /\ resolved[1].model \in Candidates
          /\ \A id \in Candidates :
                scoreModel(resolved[1].model, resolved[1].provider)
                    >= scoreModel(id, resolved[1].provider)
    /\ P7Call => resolved[1].model = "claude-sonnet-4-20250514"

(* the call of P7 has been made *)
C13_Witness == P7Call /\ resolved[1].model = P7Catalog[2]

(* the cache read by the last resolve call gives no candidate: it is      *)
(* absent, empty, not JSON, not a list of strings, or holds no identifier  *)
(* that matches the tier                                                   *)
NoCandidate ==
    /\ resolved # Null
    /\ \/ resolved[1].cached = Null
       \/ resolved[1].cached[1].json \in {"empty", "unparsable", "notList"}
       \/ resolved[1].cached[1].json = "list" /\ resolved[1].cached[1].junk
       \/ ResolvedList /\ Candidates = {}

(* C14: in that case resolve returns the static default of (tier,          *)
(* provider), also when the default is not in the catalog.                 *)
C14_Fallback ==
    NoCandidate
    => resolved[1].model
           = AI_TIERS[resolved[1].tier][resolved[1].provider].default

(* P8: the cache holds a haiku identifier only and the tier is quality *)
C14_Witness ==
    /\ ResolvedList
    /\ resolved[1].provider = "claude"
    /\ resolved[1].tier = "quality"
    /\ resolved[1].cached[1].models = <<"claude-3-5-haiku-20241022">>
    /\ resolved[1].model = "claude-opus-4-20250514"

(* the list of the cache read by the last resolve call, in another order *)
Reordered(perm) ==
    [k \in 1..Len(resolved[1].cached[1].models) |->
        resolved[1].cached[1].models[perm[k]]]

(* C15: for a given set of catalog identifiers the result of resolve is    *)
(* the same for every order in which the catalog lists them (ties of the   *)
(* highest score are broken by the identifiers, not by their positions).   *)
C15_OrderIndependent ==
    ResolvedList
    => \A perm \in Permutations(1..Len(resolved[1].cached[1].models)) :
          resolveModelForTier(
              resolved[1].provider, resolved[1].tier,
              [modelsCache EXCEPT ![resolved[1].provider] =
                  Some(ModelList(Reordered(perm), FALSE))])
          = resolved[1].model

(* the identifiers that the last resolve call has scored for claude *)
CachedClaudeIds ==
    IF ResolvedList /\ resolved[1].provider = "claude"
    THEN Candidates
    ELSE {}

(* the score of the family and generation of a claude identifier *)
FamilyGeneration(id) ==
    claudeFamily(toLowerCase(id)) + claudeVersion(toLowerCase(id))

Dated(id) == dateMatch(toLowerCase(id)) # Null

(* C16: a claude identifier whose family-plus-generation score is higher   *)
(* scores higher, whatever date each identifier contains or lacks; of two  *)
(* identifiers of equal family and generation that both embed a date, the  *)
(* one with the later date scores higher.                                  *)
C16_DateWithinGeneration ==
    \A a, b \in CachedClaudeIds :
        /\ FamilyGeneration(a) > FamilyGeneration(b)
           => scoreModel(a, "claude") > scoreModel(b, "claude")
        /\ /\ FamilyGeneration(a) = FamilyGeneration(b)
           /\ Dated(a) /\ Dated(b)
           /\ claudeDate(toLowerCase(a)) > claudeDate(toLowerCase(b))
           => scoreModel(a, "claude") > scoreModel(b, "claude")

(* processor p has ended in this step *)
Ended(p) == \A q \in procs' : q.jobId # p.jobId

(* p was asked for AI cleanup while no key is configured *)
NoCredential(p) == p.shouldAICleanup /\ ~p.hasKey

C18_Create ==
    /\ \A k \in CallIdx :
          calls[k].op = "create"
          => /\ calls[k].after # Null
             /\ calls[k].after[1].id = calls[k].counterBefore + 1
             /\ calls[k].after[1].status = "pending"
             /\ calls[k].after[1].completedItems = 0
             /\ calls[k].after[1].completedAt = Null
             /\ calls[k].after[1].error = Null
             /\ calls[k].counterAfter = calls[k].counterBefore + 1
             /\ calls[k].head = calls[k].after[1].id
             /\ calls[k].storedHead = Some(stringifyJob(calls[k].after[1]))
             /\ calls[k].storedCounter = Some(calls[k].counterBefore + 1)
    /\ \A m, n \in 1..Len(aiJobs) : m < n => aiJobs[m].id > aiJobs[n].id

(* a job was created in front of a job that was already in the list *)
C18_Witness ==
    /\ Len(calls) >= 1
    /\ calls[1].op = "create"
    /\ calls[1].counterBefore >= 1
    /\ Len(aiJobs) >= 2
    /\ aiJobs[1].id = calls[1].jobId

(* the updates the processors issue *)
UpdateSamples ==
    {[status |-> "processing"], [status |-> "completed"],
     [status |-> "completed", completedItems |-> 1],
     [completedItems |-> 1],
     [status |-> "failed", error |-> Some(ErrorMsg)]}

(* every store call of the step is an update of an id no job has *)
OnlyMissingIds(log) ==
    /\ log # <<>>
    /\ \A k \in 1..Len(log) : log[k].op = "update" /\ log[k].before = Null

(* C19: an update with an id that no job of the store has (never assigned, *)
(* or of a job that has been evicted) leaves the in-memory list, the       *)
(* counter and the persisted record unchanged.                             *)
C19_MissingId ==
    /\ [](\A id \in 0..(aiJobIdCounter + 1), updates \in UpdateSamples :
             ~HasJob(aiJobs, id)
             => updateAIJob(CurrentStore, now, id, updates, hasListContainer)
                    = CurrentStore)
    /\ [](\A k \in CallIdx :
             calls[k].op = "update" /\ calls[k].before = Null
             => /\ calls[k].after = Null
                /\ calls[k].counterAfter = calls[k].counterBefore
                /\ ~calls[k].persisted)
    /\ [][OnlyMissingIds(calls')
            => /\ aiJobs' = aiJobs
               /\ aiJobIdCounter' = aiJobIdCounter
               /\ stored' = stored]_vars

(* a processor has just issued an update for its job after the job had     *)
(* been evicted, while another job is in the store                         *)
C19_Witness ==
    /\ OnlyMissingIds(calls)
    /\ Created(calls[1].jobId)
    /\ ~HasJob(aiJobs, calls[1].jobId)
    /\ Len(aiJobs) >= 1

OtherProvider(provider) == IF provider = "claude" THEN "openai" ELSE "claude"

(* the cache entry of the provider of the last refresh, and the one it had *)
RefreshedEntry == modelsCache[refreshed[1].provider]
EntryBefore == refreshed[1].before[refreshed[1].provider]

(* C20 as stated: a refresh that fails leaves the provider's entry as it    *)
(* was, one that succeeds replaces it with exactly the identifiers of the   *)
(* new listing, and the other provider's entry is unchanged.                *)
C20_Original ==
    refreshed # Null
    => /\ refreshed[1].response.outcome # "ok"
          => RefreshedEntry = EntryBefore
       /\ refreshed[1].response.outcome = "ok"
          => RefreshedEntry
                 = Some(ModelList(idsOf(refreshed[1].response.data), FALSE))
       /\ modelsCache[OtherProvider(refreshed[1].provider)]
              = refreshed[1].before[OtherProvider(refreshed[1].provider)]

(* C20 amended: a refresh that succeeds replaces the entry with the         *)
(* identifiers, in listing order, of the entries of the new listing that    *)
(* pass the provider's filter, and with none of the previous identifiers    *)
(* that the listing lacks.                                                  *)
C20_Refresh ==
    refreshed # Null
    => /\ refreshed[1].response.outcome # "ok"
          => RefreshedEntry = EntryBefore
       /\ refreshed[1].response.outcome = "ok"
          => /\ RefreshedEntry # Null
             /\ RefreshedEntry[1].json = "list"
             /\ ~RefreshedEntry[1].junk
             /\ \A id \in ClaudeIds \cup OpenAIIds
                        \cup {m.id : m \in ClaudeListed \cup OpenAIListed} :
                   LET at(list) == {k \in 1..Len(list) : list[k] = id}
                       passing == SelectSeq(refreshed[1].response.data,
                                     LAMBDA m : keepListed(refreshed[1].provider,
                                                           m))
                   IN  Cardinality(at(RefreshedEntry[1].models))
                           = Cardinality(at(idsOf(passing)))
             /\ \A j, k \in 1..Len(RefreshedEntry[1].models) :
                   j < k
                   => \E a, b \in 1..Len(refreshed[1].response.data) :
                         /\ a < b
                         /\ refreshed[1].response.data[a].id
                                = RefreshedEntry[1].models[j]
                         /\ refreshed[1].response.data[b].id
                                = RefreshedEntry[1].models[k]
       /\ modelsCache[OtherProvider(refreshed[1].provider)]
              = refreshed[1].before[OtherProvider(refreshed[1].provider)]

(* a refresh has replaced an entry that held an identifier the new listing  *)
(* lacks, while the other provider has an entry of its own, and after it a  *)
(* failed refresh has left an entry in place                                *)
C20_Witness ==
    /\ refreshed # Null
    /\ refreshed[1].response.outcome = "ok"
    /\ EntryBefore # Null
    /\ \E k \in 1..Len(EntryBefore[1].models) :
          \A j \in 1..Len(RefreshedEntry[1].models) :
              RefreshedEntry[1].models[j] # EntryBefore[1].models[k]
    /\ Len(RefreshedEntry[1].models) >= 1
    /\ modelsCache[OtherProvider(refreshed[1].provider)] # Null

(* C21: for every provider and every catalog, resolve with a tier that is  *)
(* none of fast, balanced, quality (or with no tier stored) returns what    *)
(* resolve returns for balanced.                                            *)
C21_UnknownTier ==
    /\ resolved # Null
    /\ (resolved[1].storedTier = Null \/ resolved[1].storedTier[1] \notin Tiers)
    => resolved[1].model
           = resolveModelForTier(resolved[1].provider, "balanced", modelsCache)

ErrorOnlyIfFailed(job) == job.error # Null => job.status = "failed"

(* C22: in every state, after every store call and in the persisted record *)
(* a job's error is non-null only if its status is failed; a pending,       *)
(* processing or completed job has a null error.                            *)
C22_ErrorOnlyIfFailed ==
    /\ \A m \in 1..Len(aiJobs) : ErrorOnlyIfFailed(aiJobs[m])
    /\ \A k \in CallIdx :
          /\ calls[k].before # Null => ErrorOnlyIfFailed(calls[k].before[1])
          /\ calls[k].after # Null => ErrorOnlyIfFailed(calls[k].after[1])
    /\ stored # Null
       => \A m \in 1..Len(stored[1].jobs) :
             ErrorOnlyIfFailed(stored[1].jobs[m])

(* a processor has just marked its job failed with the error it caught,     *)
(* next to a job that is processing or completed with a null error          *)
C22_Witness ==
    /\ \E k \in CallIdx :
          /\ Applied(calls[k])
          /\ calls[k].before[1].error = Null
          /\ calls[k].after[1].status = "failed"
          /\ calls[k].after[1].error = Some(ErrorMsg)
    /\ \E m \in 1..Len(aiJobs) :
          aiJobs[m].status \in {"processing", "completed"}
          /\ aiJobs[m].error = Null

InFlight(p) == {q \in procs : q.jobId = p.jobId}

(* C24: a podcast import has one provider or database call in flight at a   *)
(* time, and it waits for the call of item i + 1 only when completedItems   *)
(* of its job has been set to i.                                            *)
C24_Serialized ==
    \A p \in procs :
        p.kind = "podcasts"
        => /\ Cardinality(InFlight(p)) = 1
           /\ p.pc \in {"ai", "insert"}
           /\ p.i < p.n
           /\ HasJob(aiJobs, p.jobId)
              => /\ JobOf(aiJobs, p.jobId)[1].completedItems = p.i
                 /\ JobOf(aiJobs, p.jobId)[1].status = "processing"

(* the item loops of two imports interleave: each has reported its first    *)
(* item and waits for a call of its second one                              *)
C24_Witness ==
    \E p, q \in procs :
        /\ p.jobId # q.jobId
        /\ p.kind = "podcasts" /\ q.kind = "podcasts"
        /\ p.i = 1 /\ q.i = 1
        /\ HasJob(aiJobs, p.jobId) /\ HasJob(aiJobs, q.jobId)
        /\ JobOf(aiJobs, p.jobId)[1].completedItems = 1
        /\ JobOf(aiJobs, q.jobId)[1].completedItems = 1

(* the fields of a job that no update of a processor carries *)
FrameFields == {"id", "title", "totalItems", "startedAt", "progress"}

SameFrame(a, b) == \A f \in FrameFields : a[f] = b[f]

UpdatedIds(log) ==
    {log[k].jobId : k \in {j \in 1..Len(log) : log[j].op = "update"}}

(* a step of a processor: it makes store calls, and none of them is a load *)
ProcessorStep ==
    /\ calls' # <<>>
    /\ \A k \in 1..Len(calls') : calls'[k].op \in {"create", "update"}

(* C25: an update a processor issues for its job changes only the job's     *)
(* status, completedItems, completedAt and error: id, title, totalItems and *)
(* startedAt keep the values of the creation, and every other job that      *)
(* remains in the store is unchanged, field for field.                      *)
C25_Frame ==
    /\ [](\A k \in CallIdx :
             /\ calls[k].op = "update"
                => DOMAIN calls[k].updates[1]
                       \subseteq {"status", "completedItems", "error"}
             /\ Applied(calls[k])
                => SameFrame(calls[k].before[1], calls[k].after[1]))
    /\ [][ProcessorStep
            => \A n \in 1..Len(aiJobs') :
                  IF HasJob(aiJobs, aiJobs'[n].id)
                  THEN /\ SameFrame(JobOf(aiJobs, aiJobs'[n].id)[1], aiJobs'[n])
                       /\ aiJobs'[n].id \notin UpdatedIds(calls')
                          => aiJobs'[n] = JobOf(aiJobs, aiJobs'[n].id)[1]
                  ELSE \E k \in 1..Len(calls') :
                          /\ calls'[k].op = "create"
                          /\ calls'[k].jobId = aiJobs'[n].id]_vars

(* an import has counted an item of its job, at a later hour than the       *)
(* job's start, while a job of another processor is in the store            *)
C25_Witness ==
    /\ \E k \in CallIdx :
          /\ Applied(calls[k])
          /\ calls[k].before[1].completedItems
                 < calls[k].after[1].completedItems
          /\ calls[k].after[1].title \in PodcastTitles
          /\ \E m \in 1..Len(aiJobs) : aiJobs[m].id # calls[k].jobId
    /\ Len(aiJobs) >= 2

(* C28: whenever a job's status is completed its completedItems equals its *)
(* totalItems, for the single-item jobs of transcript cleanup and           *)
(* enrichment as for the imports of several items.                          *)
C28_CompletedAllItems ==
    \A m \in 1..Len(aiJobs) :
        aiJobs[m].status = "completed"
        => aiJobs[m].completedItems = aiJobs[m].totalItems

(* the first MAX_JOBS jobs of a list *)
FirstJobs(jobs) == SubSeq(jobs, 1, Min(MAX_JOBS, Len(jobs)))

Ids(jobs) == [k \in 1..Len(jobs) |-> jobs[k].id]

(* C29: after every create, update or load that has written the record,    *)
(* the record's jobs are the first MAX_JOBS jobs of the in-memory list, in  *)
(* the same order and with the same field values, and its counter is the    *)
(* in-memory counter; the record holds at most MAX_JOBS jobs, and a reload  *)
(* at that point brings back every one of those jobs.                       *)
C29_RecordMatchesList ==
    /\ \A k \in CallIdx :
          calls[k].persisted
          => calls[k].storedCounter = Some(calls[k].counterAfter)
    /\ JustPersisted
       => /\ stored # Null
          /\ Len(stored[1].jobs) <= MAX_JOBS
          /\ stored[1].jobs = [k \in 1..Len(FirstJobs(aiJobs)) |->
                                  stringifyJob(FirstJobs(aiJobs)[k])]
          /\ stored[1].counter = aiJobIdCounter
          /\ Ids(loadAIJobs(FreshStore(stored), now).aiJobs)
                 = Ids(FirstJobs(aiJobs))

(* a create has written a record of MAX_JOBS jobs headed by the new job     *)
(* while the list held one job more, and the update after it has written    *)
(* the record again                                                         *)
C29_Witness ==
    /\ Len(calls) = 2
    /\ calls[1].op = "create" /\ calls[1].persisted
    /\ calls[1].len = MAX_JOBS + 1
    /\ calls[1].storedHead # Null
    /\ calls[1].storedHead[1].id = calls[1].jobId
    /\ calls[2].persisted
    /\ stored # Null
    /\ Len(stored[1].jobs) = MAX_JOBS
    /\ stored[1].jobs[1].status = "processing"

ActiveAndYoung(job, t) ==
    /\ job.status \in {"pending", "processing"}
    /\ job.startedAt > t - JOB_RETENTION_HOURS

C30_ResetClears ==
    \A provider \in Providers :
        resetDone[provider]
        => /\ modelsCache[provider] = Null
           /\ \A tier \in Tiers :
                 resolveModelForTier(provider, tier, modelsCache)
                     = AI_TIERS[tier][provider].default

====
